---- MODULE Spec2Model ----
(***************************************************************************)
(* Model of the ASCII <-> image converter core: the symbol map             *)
(* (converter/symbol_map.rs), the Dimension scaler (converter/dimension.rs)*)
(* and the ASCII grid sizing (converter/ascii.rs).                         *)
(*                                                                         *)
(* Characters are Unicode code points.  f32 values are modelled bit-exactly*)
(* (24-bit significand, round to nearest, ties to even) because the code's *)
(* results depend on the rounding of each single-precision operation.      *)
(***************************************************************************)
EXTENDS Integers, Sequences, FiniteSets, TLC

VARIABLES
    symCall,      \* last call into the symbol map: [fn, arg, ret]
    dimension,    \* the Dimension object: [width, height]
    dimCall,      \* last method called on it: [fn, arg, before, nth]
    data,         \* Ascii.data: the text, a sequence of code points
    bareCR,       \* TRUE iff the build's str::lines() strips a final bare '\r'
    asciiCall,    \* last Ascii method run: [fn, ret]
    testI,        \* test_symbol_for_brightness: the loop variable i
    testB,        \* test_symbol_for_brightness: the BTreeSet b
    convPc,       \* convert_to_image: where each call stands
    convText,     \* convert_to_image: the text each call borrows (self.data)
    frame,        \* convert_to_image: the locals, by the slot that holds them
    convRes,      \* convert_to_image: what each call returned
    webReq,       \* website: the form of the request being handled
    webPc,        \* website: where the handler stands
    webVal,       \* website: what the validation of the form returned
    webConv,      \* website: what the converter returned
    webFiles,     \* website: the files of ./static/conversion_results
    webHtml,      \* website: the HtmlTemplate generated
    webResp,      \* website: the HttpResponse
    webLog        \* website: the calls made so far, in order

vars == <<symCall, dimension, dimCall, data, bareCR, asciiCall, testI, testB,
          convPc, convText, frame, convRes,
          webReq, webPc, webVal, webConv, webFiles, webHtml, webResp, webLog>>

dimVars == <<dimension, dimCall>>

asciiVars == <<data, bareCR, asciiCall>>

testVars == <<testI, testB>>

convVars == <<convPc, convText, frame, convRes>>

webVars == <<webReq, webPc, webVal, webConv, webFiles, webHtml, webResp, webLog>>

----------------------------------------------------------------------------
(* Bounds of the model *)

\* dimensions and scale bounds 0..MaxSmallDim are explored exhaustively
MaxSmallDim == 3
\* texts of up to MaxTextLen characters are explored exhaustively
MaxTextLen == 4
\* scale calls made on one Dimension object
MaxScaleCalls == 2

\* the longest text of two calls that run at the same time
MaxConcLen == 2

\* the largest size of an uploaded file, next to the sizes of the tests
MaxFileSize == 2

----------------------------------------------------------------------------
(* IEEE-754 single precision, as used by `as f32`, `/`, `*` and `as uN`.   *)
(* A finite value is [nan |-> FALSE, m, e] = m * 2^e with m = 0 or         *)
(* 2^23 <= m < 2^24.  Operands are u32 values and their quotients, so the  *)
(* exponent stays far inside the normal range and never over/underflows.   *)

Pow2(n) == 2 ^ n

F32Zero == [nan |-> FALSE, m |-> 0, e |-> 0]

F32NaN == [nan |-> TRUE, m |-> 0, e |-> 0]

\* number of significant bits of n >= 1
RECURSIVE BitLen(_)
BitLen(n) == IF n <= 1 THEN 1 ELSE 1 + BitLen(n \div 2)

\* round to nearest, ties to even: m with discarded part rem out of unit
\* (half = unit / 2 compared as 2 * rem against unit)
RoundEven(m, rem, unit) ==
    IF 2 * rem > unit \/ (2 * rem = unit /\ m % 2 = 1) THEN m + 1 ELSE m

\* renormalise a significand that rounding carried up to 2^24
Normal(m, e) ==
    IF m = Pow2(24) THEN [nan |-> FALSE, m |-> Pow2(23), e |-> e + 1]
                    ELSE [nan |-> FALSE, m |-> m, e |-> e]

\* `n as f32` for an unsigned integer n
U32ToF32(n) ==
    IF n = 0 THEN F32Zero
    ELSE LET len == BitLen(n) IN
         IF len <= 24
         THEN [nan |-> FALSE, m |-> n * Pow2(24 - len), e |-> len - 24]
         ELSE LET s == len - 24
                  unit == Pow2(s)
              IN  Normal(RoundEven(n \div unit, n % unit, unit), s)

\* n further quotient bits of r / d, for 0 <= r < d: <<quotient, remainder>>
RECURSIVE LongDiv(_, _, _)
LongDiv(r, d, n) ==
    IF n = 0 THEN <<0, r>>
    ELSE LET rr == 2 * r
             bit == IF rr >= d THEN 1 ELSE 0
             rest == LongDiv(rr - bit * d, d, n - 1)
         IN  <<bit * Pow2(n - 1) + rest[1], rest[2]>>

\* a / b.  x / 0 with x > 0 (infinity) is never computed by the code: scale
\* divides by the larger axis, which is zero only when both axes are.
F32Div(a, b) ==
    IF a.nan \/ b.nan \/ b.m = 0 THEN F32NaN
    ELSE IF a.m = 0 THEN F32Zero
    ELSE IF a.m >= b.m
         THEN LET qr == LongDiv(a.m - b.m, b.m, 23)
              IN  Normal(RoundEven(Pow2(23) + qr[1], qr[2], b.m),
                         a.e - b.e - 23)
         ELSE LET qr == LongDiv(a.m, b.m, 24)
              IN  Normal(RoundEven(qr[1], qr[2], b.m), a.e - b.e - 24)

\* the 48-bit product of two 24-bit significands as <<hi, lo>> in base 2^24
Mul24(a, b) ==
    LET a1 == a \div 4096
        a0 == a % 4096
        b1 == b \div 4096
        b0 == b % 4096
        mid == a0 * b1 + a1 * b0
        low == (mid % 4096) * 4096 + a0 * b0
    IN  <<a1 * b1 + mid \div 4096 + low \div Pow2(24), low % Pow2(24)>>

\* a * b
F32Mul(a, b) ==
    IF a.nan \/ b.nan THEN F32NaN
    ELSE IF a.m = 0 \/ b.m = 0 THEN F32Zero
    ELSE LET p == Mul24(a.m, b.m) IN
         IF p[1] >= Pow2(23)
         THEN Normal(RoundEven(p[1], p[2], Pow2(24)), a.e + b.e + 24)
         ELSE Normal(RoundEven(2 * p[1] + p[2] \div Pow2(23),
                               p[2] % Pow2(23), Pow2(23)),
                     a.e + b.e + 23)

\* `x as u32` / `x as usize`: NaN gives 0, otherwise truncation toward zero
\* (all values of the model are below 2^31, so the cast never saturates)
F32ToInt(x) ==
    IF x.nan THEN 0
    ELSE IF x.e >= 0 THEN x.m * Pow2(x.e)
    ELSE IF x.e < -24 THEN 0
    ELSE x.m \div Pow2(-x.e)

\* `x as u8`: as above, saturating at 255
F32ToU8(x) ==
    LET n == F32ToInt(x) IN IF n > 255 THEN 255 ELSE n

----------------------------------------------------------------------------
(* converter/symbol_map.rs *)

\* the table with '.' entered twice and no space
SYMBOLS_dup == <<
    36, 64, 66, 37, 56, 38, 87, 77, 35, 42, 111, 97, 104, 107,
    98, 100, 112, 113, 119, 109, 90, 79, 48, 81, 76, 67, 74, 85,
    89, 88, 122, 99, 118, 117, 110, 120, 114, 106, 102, 116, 47, 92,
    124, 40, 41, 49, 123, 125, 91, 93, 63, 45, 95, 43, 126, 60,
    62, 105, 33, 108, 73, 59, 58, 44, 34, 94, 96, 39, 46, 46 >>

\* $ @ B % 8 & W M # * o a h k b d p q w m Z O 0 Q L C J U Y X z c v u n x r
\* j f t / \ | ( ) 1 { } [ ] ? - _ + ~ < > i ! l I ; : , " ^ ` ' . space
SYMBOLS == <<
    36, 64, 66, 37, 56, 38, 87, 77, 35, 42, 111, 97, 104, 107,
    98, 100, 112, 113, 119, 109, 90, 79, 48, 81, 76, 67, 74, 85,
    89, 88, 122, 99, 118, 117, 110, 120, 114, 106, 102, 116, 47, 92,
    124, 40, 41, 49, 123, 125, 91, 93, 63, 45, 95, 43, 126, 60,
    62, 105, 33, 108, 73, 59, 58, 44, 34, 94, 96, 39, 46, 32 >>

\* a divisor that is too small: 255 / 3.64 reaches index 70
BRIGHT_DIV_364 == F32Div(U32ToF32(364), U32ToF32(100))

\* the divisor rounded to one decimal
BRIGHT_DIV_37 == F32Div(U32ToF32(37), U32ToF32(10))

\* the divisor named by the comment in symbol_for_brightness
BRIGHT_DIV_26 == F32Div(U32ToF32(26), U32ToF32(1))

\* the f32 nearest to 3.65 (365 and 100 are exact and division rounds once)
BRIGHT_DIV == F32Div(U32ToF32(365), U32ToF32(100))

\* the index computed by symbol_for_brightness (0-based, as in the code)
BrightnessIndex(brightness) ==
    F32ToInt(F32Div(U32ToF32(brightness), BRIGHT_DIV))

\* SYMBOLS[idx]; indexing outside the array panics
symbol_for_brightness(brightness) ==
    LET idx == BrightnessIndex(brightness) IN
    IF idx < Len(SYMBOLS)
    THEN [tag |-> "Ret", val |-> SYMBOLS[idx + 1]]
    ELSE [tag |-> "Panic", val |-> idx]

\* a search that stops one entry early
Position_short(symbol) ==
    IF \E i \in 1..(Len(SYMBOLS) - 1) : SYMBOLS[i] = symbol
    THEN (CHOOSE i \in 1..(Len(SYMBOLS) - 1) :
              /\ SYMBOLS[i] = symbol
              /\ \A j \in 1..(i - 1) : SYMBOLS[j] # symbol) - 1
    ELSE -1

\* SYMBOLS.into_iter().position(|c| c == symbol): 0-based, -1 for None
Position(symbol) ==
    IF \E i \in 1..Len(SYMBOLS) : SYMBOLS[i] = symbol
    THEN (CHOOSE i \in 1..Len(SYMBOLS) :
              /\ SYMBOLS[i] = symbol
              /\ \A j \in 1..(i - 1) : SYMBOLS[j] # symbol) - 1
    ELSE -1

brightness_for_symbol(symbol) ==
    LET s == Position(symbol) IN
    IF s >= 0
    THEN [tag |-> "Ok", val |-> F32ToU8(F32Mul(U32ToF32(s), BRIGHT_DIV))]
    ELSE [tag |-> "Err", val |-> [kind |-> "UnknownASCIISymbol", ch |-> symbol]]

----------------------------------------------------------------------------
(* converter/dimension.rs *)

\* Dimension::new
DimensionNew == [width |-> 0, height |-> 0]

\* Dimension::from
DimensionFrom(w, h) == [width |-> w, height |-> h]

\* Dimension::scale: the larger axis is pinned to factor, the other one is
\* (factor as f32 * (smaller as f32 / larger as f32)) as u32
scale(d, factor) ==
    IF d.width > d.height
    THEN LET ratio == F32Div(U32ToF32(d.height), U32ToF32(d.width))
         IN  [width |-> factor,
              height |-> F32ToInt(F32Mul(U32ToF32(factor), ratio))]
    ELSE LET ratio == F32Div(U32ToF32(d.width), U32ToF32(d.height))
         IN  [width |-> F32ToInt(F32Mul(U32ToF32(factor), ratio)),
              height |-> factor]

\* Dimension::scale_down
scale_down(d, max) ==
    IF d.width <= max /\ d.height <= max THEN d ELSE scale(d, max)

\* Dimension::scale_up
scale_up(d, min) ==
    IF d.width >= min \/ d.height >= min THEN d ELSE scale(d, min)

----------------------------------------------------------------------------
(* converter/ascii.rs *)

\* char::len_utf8
Utf8Len(c) ==
    IF c < 128 THEN 1 ELSE IF c < 2048 THEN 2 ELSE IF c < 65536 THEN 3 ELSE 4

\* the bytes of the characters lo..hi of a line, the range taken by halves
RECURSIVE ByteSum(_, _, _)
ByteSum(line, lo, hi) ==
    IF lo > hi THEN 0
    ELSE IF lo = hi THEN Utf8Len(line[lo])
    ELSE LET mid == (lo + hi) \div 2
         IN  ByteSum(line, lo, mid) + ByteSum(line, mid + 1, hi)

\* str::len of a line: its length in bytes
ByteLen(line) == ByteSum(line, 1, Len(line))

\* a line without one trailing '\r'
StripCR(line) ==
    IF Len(line) > 0 /\ line[Len(line)] = 13
    THEN SubSeq(line, 1, Len(line) - 1)
    ELSE line

\* the positions of '\n' among the characters lo..hi, in order, the range
\* taken by halves
RECURSIVE NewlinesIn(_, _, _)
NewlinesIn(text, lo, hi) ==
    IF lo > hi THEN <<>>
    ELSE IF lo = hi THEN (IF text[lo] = 10 THEN <<lo>> ELSE <<>>)
    ELSE LET mid == (lo + hi) \div 2
         IN  NewlinesIn(text, lo, mid) \o NewlinesIn(text, mid + 1, hi)

\* str::lines: split after every '\n'; each piece loses its "\n" or "\r\n";
\* an empty piece after the last '\n' is no line.  A last piece that has no
\* '\n' loses a trailing '\r' only on toolchains where stripCR is TRUE.
Lines(text, stripCR) ==
    LET nl == NewlinesIn(text, 1, Len(text))
        n == Len(nl)
        start(k) == IF k = 1 THEN 1 ELSE nl[k - 1] + 1
        closed == [k \in 1..n |->
                      StripCR(SubSeq(text, start(k), nl[k] - 1))]
        last == SubSeq(text, start(n + 1), Len(text))
    IN  IF last = <<>> THEN closed
        ELSE Append(closed, IF stripCR THEN StripCR(last) ELSE last)

\* the loop without its comparison: the width of the last line wins
RECURSIVE DimensionsLoop_last(_, _, _)
DimensionsLoop_last(ls, k, d) ==
    IF k > Len(ls) THEN d
    ELSE DimensionsLoop_last(ls, k + 1,
             [width |-> ByteLen(ls[k]), height |-> d.height + 1])

\* the loop of get_dimensions continued from d over lines that, counted from
\* Dimension::new(), give seg: the heights add and the larger width stays
DimensionsContinue(d, seg) ==
    [width |-> IF seg.width > d.width THEN seg.width ELSE d.width,
     height |-> d.height + seg.height]

\* the loop over the lines lo..hi counted from Dimension::new(), the range
\* taken by halves
RECURSIVE DimensionsRange(_, _, _)
DimensionsRange(ls, lo, hi) ==
    IF lo > hi THEN DimensionNew
    ELSE IF lo = hi
    THEN DimensionsContinue(DimensionNew,
                            [width |-> ByteLen(ls[lo]), height |-> 1])
    ELSE LET mid == (lo + hi) \div 2
         IN  DimensionsContinue(DimensionsRange(ls, lo, mid),
                                DimensionsRange(ls, mid + 1, hi))

\* Ascii::get_dimensions: the loop over self.data.lines(), from line k on
DimensionsLoop(ls, k, d) ==
    DimensionsContinue(d, DimensionsRange(ls, k, Len(ls)))

get_dimensions(text, stripCR) ==
    DimensionsLoop(Lines(text, stripCR), 1, DimensionNew)

\* MIN_IMAGE_DIMENSION of ascii.rs
MIN_IMAGE_DIMENSION == 500

NoResult == [tag |-> "None"]

Panicked == [tag |-> "Panic"]

WriteError == [tag |-> "Err", val |-> [kind |-> "WriteError"]]

\* the buffer with its sides exchanged
GrayImageNew_swapped(width, height) ==
    [width |-> height, height |-> width,
     px |-> [p \in (0..(height - 1)) \X (0..(width - 1)) |-> 0]]

\* GrayImage::new(width, height): a buffer of zeroes
GrayImageNew(width, height) ==
    [width |-> width, height |-> height,
     px |-> [p \in (0..(width - 1)) \X (0..(height - 1)) |-> 0]]

\* the locals of convert_to_image: dimension, img, the two loop counters and
\* the size handed to imageops::resize
NoFrame ==
    [dimension |-> DimensionNew, img |-> GrayImageNew(0, 0),
     h |-> 0, w |-> 0, target |-> DimensionNew]

\* let mut dimension = self.get_dimensions(); let mut img = GrayImage::new(..)
FrameDimensions(text, stripCR) ==
    LET d == get_dimensions(text, stripCR)
    IN  [dimension |-> d, img |-> GrayImageNew(d.width, d.height),
         h |-> 0, w |-> 0, target |-> DimensionNew]

\* the loops with the unknown character skipped rather than returned
FrameFill_skip(f, text, stripCR) ==
    LET ls == Lines(text, stripCR)
    IN  IF f.h >= Len(ls)
        THEN [pc |-> "scale", f |-> f, res |-> NoResult]
        ELSE IF f.w >= Len(ls[f.h + 1])
        THEN [pc |-> "fill", f |-> [f EXCEPT !.h = @ + 1, !.w = 0],
              res |-> NoResult]
        ELSE [pc |-> "fill", f |-> [f EXCEPT !.w = @ + 1], res |-> NoResult]

\* the loops with every pixel written to the first row
FrameFill_row0(f, text, stripCR) ==
    LET ls == Lines(text, stripCR)
    IN  IF f.h >= Len(ls)
        THEN [pc |-> "scale", f |-> f, res |-> NoResult]
        ELSE IF f.w >= Len(ls[f.h + 1])
        THEN [pc |-> "fill", f |-> [f EXCEPT !.h = @ + 1, !.w = 0],
              res |-> NoResult]
        ELSE LET b == brightness_for_symbol(ls[f.h + 1][f.w + 1])
             IN  IF b.tag = "Err"
                 THEN [pc |-> "done", f |-> f, res |-> b]
                 ELSE [pc |-> "fill",
                       f |-> [f EXCEPT !.img.px[<<f.w, 0>>] = b.val,
                                       !.w = @ + 1],
                       res |-> NoResult]

\* one turn of the nested loops: the end of the text, the end of a line, or
\* one character (brightness_for_symbol(c)? and img.put_pixel(w, h, ..),
\* which panics outside the buffer)
FrameFill(f, text, stripCR) ==
    LET ls == Lines(text, stripCR)
    IN  IF f.h >= Len(ls)
        THEN [pc |-> "scale", f |-> f, res |-> NoResult]
        ELSE IF f.w >= Len(ls[f.h + 1])
        THEN [pc |-> "fill", f |-> [f EXCEPT !.h = @ + 1, !.w = 0],
              res |-> NoResult]
        ELSE LET b == brightness_for_symbol(ls[f.h + 1][f.w + 1])
             IN  IF b.tag = "Err"
                 THEN [pc |-> "done", f |-> f, res |-> b]
                 ELSE IF f.w < f.img.width /\ f.h < f.img.height
                 THEN [pc |-> "fill",
                       f |-> [f EXCEPT !.img.px[<<f.w, f.h>>] = b.val,
                                       !.w = @ + 1],
                       res |-> NoResult]
                 ELSE [pc |-> "panic", f |-> f, res |-> Panicked]

\* dimension.scale_up(MIN_IMAGE_DIMENSION)
FrameScaleUp(f) ==
    [f EXCEPT !.dimension = scale_up(f.dimension, MIN_IMAGE_DIMENSION)]

\* the resize with both sides halved
FrameResize_both(f) ==
    [f EXCEPT !.target = [width |-> f.dimension.width \div 2,
                          height |-> f.dimension.height \div 2]]

\* imageops::resize(&img, dimension.width / 2, dimension.height, Triangle)
FrameResize(f) ==
    [f EXCEPT !.target = [width |-> f.dimension.width \div 2,
                          height |-> f.dimension.height]]

\* the match with the failure of the encoder reported as DecodeError
EncodeOutcomes_decode(f) ==
    IF f.target.width > 0 /\ f.target.height > 0
    THEN {[tag |-> "Ok",
           val |-> [png |-> f.img, width |-> f.target.width,
                    height |-> f.target.height]]}
    ELSE {[tag |-> "Err", val |-> [kind |-> "DecodeError"]], Panicked}

\* newimg.write_to(&mut buffer, Png) and the match on it: the encoding of a
\* picture that has pixels succeeds and is a function of the buffer and the
\* size; one without pixels is refused by the encoder or by the resize
EncodeOutcomes(f) ==
    IF f.target.width > 0 /\ f.target.height > 0
    THEN {[tag |-> "Ok",
           val |-> [png |-> f.img, width |-> f.target.width,
                    height |-> f.target.height]]}
    ELSE {WriteError, Panicked}

RECURSIVE FillAll(_, _, _)
FillAll(f, text, stripCR) ==
    LET n == FrameFill(f, text, stripCR)
    IN  IF n.pc = "fill" THEN FillAll(n.f, text, stripCR) ELSE n

\* Ascii::convert_to_image run from its first line to its last on locals of
\* its own: the outcomes the call can have
convert_to_image(text, stripCR) ==
    LET filled == FillAll(FrameDimensions(text, stripCR), text, stripCR)
    IN  IF filled.pc # "scale" THEN {filled.res}
        ELSE EncodeOutcomes(FrameResize(FrameScaleUp(filled.f)))

\* lib.rs: Ascii::new(ascii).convert_to_image()
ascii_to_image(text, stripCR) == convert_to_image(text, stripCR)


----------------------------------------------------------------------------
(* website: the validation of the forms *)

Ok(v) == [tag |-> "Ok", val |-> v]

Err(kind) == [tag |-> "Err", val |-> [kind |-> kind]]

\* str::is_ascii: every character is below 128
is_ascii(text) == \A i \in 1..Len(text) : text[i] < 128

\* the check of is_ascii narrowed to the printable characters
validate_ascii_input_printable(ascii_input) ==
    IF Len(ascii_input) = 0 THEN Err("EmptyInput")
    ELSE IF \E i \in 1..Len(ascii_input) :
                ascii_input[i] < 32 \/ ascii_input[i] > 126
    THEN Err("NotAsciiInput")
    ELSE [tag |-> "Ok"]

\* AsciiFormParams::validate_ascii_input; Ok(()) carries no value
validate_ascii_input(ascii_input) ==
    IF Len(ascii_input) = 0 THEN Err("EmptyInput")
    ELSE IF ~is_ascii(ascii_input) THEN Err("NotAsciiInput")
    ELSE [tag |-> "Ok"]

\* image_input: None
NoFile == [some |-> FALSE]

\* image_input: Some(TempFile { size, content_type, .. }); the content type
\* "None" stands for a file without one
TempFile(size, content_type) ==
    [some |-> TRUE, size |-> size, content_type |-> content_type]

\* the match with the content type looked at before the size
validate_image_input_mime_first(image_input) ==
    IF ~image_input.some THEN Err("EmptyInput")
    ELSE IF image_input.content_type \notin {"image/jpeg", "image/png"}
    THEN Err("UnsupportedImageType")
    ELSE IF image_input.size = 0 THEN Err("EmptyInput")
    ELSE Ok(image_input)

\* ImageFormParams::validate_image_input: the arms of the match in order
validate_image_input(image_input) ==
    IF image_input.some /\ image_input.size = 0 THEN Err("EmptyInput")
    ELSE IF image_input.some
    THEN IF /\ image_input.content_type # "None"
            /\ \/ image_input.content_type = "image/jpeg"
               \/ image_input.content_type = "image/png"
         THEN Ok(image_input)
         ELSE Err("UnsupportedImageType")
    ELSE Err("EmptyInput")

----------------------------------------------------------------------------
(* website: the templates *)

\* HtmlTemplate::Error { error_message, try_again_link }
ErrorTemplate(error_message, try_again_link) ==
    [template |-> "Error", error_message |-> error_message,
     try_again_link |-> try_again_link]

\* HtmlTemplate::ErrorMultiLine { error_message, error_message2, .. }
ErrorMultiLine(error_message, error_message2, try_again_link) ==
    [template |-> "ErrorMultiLine", error_message |-> error_message,
     error_message2 |-> error_message2, try_again_link |-> try_again_link]

\* HtmlTemplate::AsciiToImageResult { image_result }
AsciiToImageResult(image_result) ==
    [template |-> "AsciiToImageResult", image_result |-> image_result]

\* HtmlTemplate::ImageToAsciiResult { ascii_result }
ImageToAsciiResult(ascii_result) ==
    [template |-> "ImageToAsciiResult", ascii_result |-> ascii_result]

\* the match with ErrorMultiLine left out of the error arm
is_error_template_single(html) == html.template = "Error"

\* HtmlTemplate::is_error_template
is_error_template(html) ==
    IF html.template \in {"AsciiToImageResult", "ImageToAsciiResult"}
    THEN FALSE
    ELSE TRUE

\* the match with a template of its own for ErrorMultiLine
get_template_name_multi(html) ==
    IF html.template = "AsciiToImageResult" THEN "ascii-to-image-result"
    ELSE IF html.template = "ImageToAsciiResult" THEN "image-to-ascii-result"
    ELSE IF html.template = "ErrorMultiLine" THEN "error-multi-line"
    ELSE "error"

\* HtmlTemplate::get_template_name
get_template_name(html) ==
    IF html.template = "AsciiToImageResult" THEN "ascii-to-image-result"
    ELSE IF html.template = "ImageToAsciiResult" THEN "image-to-ascii-result"
    ELSE "error"

\* HtmlTemplate::render_template: hb.render(name, data), the page named by
\* get_template_name filled with the fields of the template
render_template(html) ==
    [template_name |-> get_template_name(html), data |-> html]

\* format!("{}.png", Uuid::new_v4()): the pieces of the string, in order
FileName(uuid) == <<uuid, ".png">>

\* the arms of generate_ascii_to_image_result for a form that failed the
\* validation
AsciiInputErrorTemplate(val) ==
    IF val = Err("EmptyInput")
    THEN ErrorTemplate("It looks like you submitted an empty form! Be sure to paste your ASCII text into the text box of the form.",
                       "/ascii-to-image")
    ELSE ErrorTemplate("This form only accepts ASCII characters! Be sure to double check that all pasted text is valid ASCII.",
                       "/ascii-to-image")

\* the arms with the link of the other form in the arm of the unknown symbol
AsciiConvertErrorTemplate_link(conv) ==
    IF conv = WriteError
    THEN ErrorTemplate("It looks like we ran into an issue with parsing your ASCII art! Wait a few minutes, and try it one more time. But if that doesn't work, try a different piece of ASCII art.",
                       "/ascii-to-image")
    ELSE IF conv.val.kind = "UnknownASCIISymbol"
    THEN ErrorMultiLine(
             <<"The ASCII art you submitted contains an unsupported character: ",
               conv.val.ch>>,
             "Please try again with a piece of ASCII art that only contains supported symbols.",
             "/image-to-ascii")
    ELSE ErrorTemplate("It looks like we ran into an issue with parsing your ASCII art! There could be a problem with your ASCII or with our parser, so give it a try one more time. If that doesn't work, try a different image.",
                       "/ascii-to-image")

\* the arms of generate_ascii_to_image_result for a converter error, in the
\* order of the match; format!("...: {}", symbol) is the text followed by
\* the character
AsciiConvertErrorTemplate(conv) ==
    IF conv = WriteError
    THEN ErrorTemplate("It looks like we ran into an issue with parsing your ASCII art! Wait a few minutes, and try it one more time. But if that doesn't work, try a different piece of ASCII art.",
                       "/ascii-to-image")
    ELSE IF conv.val.kind = "UnknownASCIISymbol"
    THEN ErrorMultiLine(
             <<"The ASCII art you submitted contains an unsupported character: ",
               conv.val.ch>>,
             "Please try again with a piece of ASCII art that only contains supported symbols.",
             "/ascii-to-image")
    ELSE ErrorTemplate("It looks like we ran into an issue with parsing your ASCII art! There could be a problem with your ASCII or with our parser, so give it a try one more time. If that doesn't work, try a different image.",
                       "/ascii-to-image")

\* the Ok arm: format!("conversion_results/{}", file_name)
AsciiResultTemplate(file_name) ==
    AsciiToImageResult(<<"conversion_results/">> \o file_name)

\* the arms of generate_image_to_ascii_result for a form that failed the
\* validation
ImageInputErrorTemplate(val) ==
    IF val = Err("EmptyInput")
    THEN ErrorTemplate("It looks like you submitted an empty form! Be sure to upload an image to the form before submitting.",
                       "/image-to-ascii")
    ELSE ErrorTemplate("It looks like you submitted an unsupported image type! Be sure to upload either a JPEG or a PNG image only.",
                       "/image-to-ascii")

\* the match with an arm of its own for WriteError, as the other form has
ImageConvertTemplate_write(conv) ==
    IF conv.tag = "Ok" THEN ImageToAsciiResult(conv.val)
    ELSE IF conv = WriteError
    THEN ErrorTemplate("It looks like we ran into an issue with parsing your image! Wait a few minutes, and try it one more time.",
                       "/image-to-ascii")
    ELSE ErrorTemplate("It looks like we ran into an issue with parsing your image! There could be a problem with your image or with our parser, so try it one more time. But if that doesn't work, try a different image.",
                       "/image-to-ascii")

\* the match of generate_image_to_ascii_result on what image_to_ascii
\* returned
ImageConvertTemplate(conv) ==
    IF conv.tag = "Ok" THEN ImageToAsciiResult(conv.val)
    ELSE ErrorTemplate("It looks like we ran into an issue with parsing your image! There could be a problem with your image or with our parser, so try it one more time. But if that doesn't work, try a different image.",
                       "/image-to-ascii")

----------------------------------------------------------------------------
(* Inputs *)

\* u8
Byte == 0..255

\* characters passed to brightness_for_symbol: all of ASCII, and
\* e-acute, the euro sign and an emoji (2, 3 and 4 bytes in UTF-8)
CharInputs == (0..127) \cup {233, 8364, 128512}

\* widths, heights and scale bounds: the small ones, the values of the unit
\* tests and pairs in exact proportion
ProbeDims == {7, 12, 13, 22, 26, 44, 90, 150, 190, 200, 300, 500}

DimInputs == (0..MaxSmallDim) \cup ProbeDims

ScaleArgs == (0..MaxSmallDim) \cup {22, 44, 90, 108, 200, 300, 500}

\* values above 2^24, where the conversion from u32 to f32 rounds
LargeDimInputs == (0..MaxSmallDim) \cup {16777217, 16777219, 33554432}

LargeScaleArgs == (0..MaxSmallDim) \cup {16777217, 16777219}

\* '\n', '\r', '.', 'P' and e-acute
TextChars == {10, 13, 46, 80, 233}

RECURSIVE SeqsUpTo(_, _)
SeqsUpTo(S, n) ==
    IF n = 0 THEN {<<>>}
    ELSE LET shorter == SeqsUpTo(S, n - 1)
         IN  shorter \cup {Append(t, c) : t \in shorter, c \in S}

\* "1\n1\n123\n1", "a" and "bbb" of test_ascii_dimensions
TestTexts == {<<49, 10, 49, 10, 49, 50, 51, 10, 49>>, <<97>>, <<98, 98, 98>>}

Texts == SeqsUpTo(TextChars, MaxTextLen) \cup TestTexts

NoCall == [fn |-> "none"]

----------------------------------------------------------------------------
(* The symbol map under arbitrary calls *)

SymIdle == symCall = NoCall

NoDimCall == [fn |-> "none", nth |-> 0]

DimIdle == dimension = DimensionNew /\ dimCall = NoDimCall

AsciiIdle == data = <<>> /\ bareCR = FALSE /\ asciiCall = NoCall

TestIdle == testI = 0 /\ testB = {}

\* the calls of convert_to_image that a run follows
Calls == {"a", "b"}

ConvIdle ==
    /\ convPc = [c \in Calls |-> "idle"]
    /\ convText = [c \in Calls |-> <<>>]
    /\ frame = [c \in Calls |-> NoFrame]
    /\ convRes = [c \in Calls |-> NoResult]

NoRequest == [kind |-> "none"]

NoTemplate == [template |-> "none"]

NoResponse == [status |-> 0]

WebIdle ==
    /\ webReq = NoRequest /\ webPc = "idle"
    /\ webVal = NoResult /\ webConv = NoResult
    /\ webFiles = {} /\ webHtml = NoTemplate
    /\ webResp = NoResponse /\ webLog = <<>>

SymInit == SymIdle /\ DimIdle /\ AsciiIdle /\ TestIdle /\ ConvIdle /\ WebIdle

SymbolForBrightness(b) ==
    /\ symCall' = [fn |-> "symbol_for_brightness", arg |-> b,
                   ret |-> symbol_for_brightness(b)]
    /\ UNCHANGED <<dimVars, asciiVars, testVars, convVars, webVars>>

BrightnessForSymbol(c) ==
    /\ symCall' = [fn |-> "brightness_for_symbol", arg |-> c,
                   ret |-> brightness_for_symbol(c)]
    /\ UNCHANGED <<dimVars, asciiVars, testVars, convVars, webVars>>

SymNext ==
    \/ \E b \in Byte : SymbolForBrightness(b)
    \/ \E c \in CharInputs : BrightnessForSymbol(c)

SpecSymbolMap == SymInit /\ [][SymNext]_vars

----------------------------------------------------------------------------
(* test_symbol_for_brightness: for i in 0..=255 { b.insert(...) },         *)
(* followed by the assertion on b.len()                                    *)

TestInit == SymInit

\* one iteration of the loop; a panicking call ends the test
TestInsert ==
    /\ testI <= 255
    /\ symbol_for_brightness(testI).tag = "Ret"
    /\ testB' = testB \cup {symbol_for_brightness(testI).val}
    /\ testI' = testI + 1
    /\ UNCHANGED <<symCall, dimVars, asciiVars, convVars, webVars>>

TestNext == TestInsert

SpecSymbolTest == TestInit /\ [][TestNext]_vars

----------------------------------------------------------------------------
(* A Dimension under arbitrary scale calls *)

DimInit ==
    /\ SymIdle /\ AsciiIdle /\ TestIdle /\ ConvIdle /\ WebIdle
    /\ \E w \in DimInputs, h \in DimInputs : dimension = DimensionFrom(w, h)
    /\ dimCall = NoDimCall

ScaleDown(max) ==
    /\ dimCall.nth < MaxScaleCalls
    /\ dimension' = scale_down(dimension, max)
    /\ dimCall' = [fn |-> "scale_down", arg |-> max, before |-> dimension,
                   nth |-> dimCall.nth + 1]
    /\ UNCHANGED <<symCall, asciiVars, testVars, convVars, webVars>>

ScaleUp(min) ==
    /\ dimCall.nth < MaxScaleCalls
    /\ dimension' = scale_up(dimension, min)
    /\ dimCall' = [fn |-> "scale_up", arg |-> min, before |-> dimension,
                   nth |-> dimCall.nth + 1]
    /\ UNCHANGED <<symCall, asciiVars, testVars, convVars, webVars>>

DimNext ==
    \/ \E max \in ScaleArgs : ScaleDown(max)
    \/ \E min \in ScaleArgs : ScaleUp(min)

SpecDimension == DimInit /\ [][DimNext]_vars

\* the same object and methods over the whole width of u32
DimLargeInit ==
    /\ SymIdle /\ AsciiIdle /\ TestIdle /\ ConvIdle /\ WebIdle
    /\ \E w \in LargeDimInputs, h \in LargeDimInputs :
           dimension = DimensionFrom(w, h)
    /\ dimCall = NoDimCall

DimLargeNext ==
    \/ \E max \in LargeScaleArgs : ScaleDown(max)
    \/ \E min \in LargeScaleArgs : ScaleUp(min)

SpecDimensionLarge == DimLargeInit /\ [][DimLargeNext]_vars

----------------------------------------------------------------------------
(* The grid size of a text *)

AsciiInit ==
    /\ SymIdle /\ DimIdle /\ TestIdle /\ ConvIdle /\ WebIdle
    /\ data \in Texts
    /\ bareCR \in BOOLEAN
    /\ asciiCall = NoCall

GetDimensions ==
    /\ asciiCall' = [fn |-> "get_dimensions",
                     ret |-> get_dimensions(data, bareCR)]
    /\ UNCHANGED <<symCall, dimVars, data, bareCR, testVars, convVars, webVars>>

AsciiNext == GetDimensions

SpecAscii == AsciiInit /\ [][AsciiNext]_vars

----------------------------------------------------------------------------
(* convert_to_image, statement by statement *)

\* ".\n'" of test_convert_to_image_ok
ConvTestTexts == {<<46, 10, 39>>}

\* texts of two alphabet symbols, '.' and '@', and '\n'
FillTexts == SeqsUpTo({10, 46, 64}, MaxTextLen)

ConvTexts == Texts \cup ConvTestTexts \cup FillTexts

\* the locals kept in one place for all calls, as statics would be
Slot_shared(c) == "a"

\* every call has locals of its own: let mut dimension, let mut img, and the
\* counters of the two loops
Slot(c) == c

OthersIdle ==
    /\ SymIdle /\ DimIdle /\ TestIdle /\ WebIdle
    /\ data = <<>> /\ asciiCall = NoCall

\* one call, on any text
ConvInit ==
    /\ OthersIdle
    /\ bareCR \in BOOLEAN
    /\ convPc = [c \in Calls |-> IF c = "a" THEN "dims" ELSE "idle"]
    /\ \E t \in ConvTexts :
           convText = [c \in Calls |-> IF c = "a" THEN t ELSE <<>>]
    /\ frame = [c \in Calls |-> NoFrame]
    /\ convRes = [c \in Calls |-> NoResult]

ConvOthers == <<symCall, dimVars, asciiVars, testVars, convText, webVars>>

ConvGetDimensions(c) ==
    /\ convPc[c] = "dims"
    /\ frame' = [frame EXCEPT
                    ![Slot(c)] = FrameDimensions(convText[c], bareCR)]
    /\ convPc' = [convPc EXCEPT ![c] = "fill"]
    /\ UNCHANGED <<convRes, ConvOthers>>

ConvFill(c) ==
    /\ convPc[c] = "fill"
    /\ LET n == FrameFill(frame[Slot(c)], convText[c], bareCR)
       IN  /\ frame' = [frame EXCEPT ![Slot(c)] = n.f]
           /\ convPc' = [convPc EXCEPT ![c] = n.pc]
           /\ convRes' = [convRes EXCEPT ![c] = n.res]
    /\ UNCHANGED ConvOthers

ConvScaleUp(c) ==
    /\ convPc[c] = "scale"
    /\ frame' = [frame EXCEPT ![Slot(c)] = FrameScaleUp(frame[Slot(c)])]
    /\ convPc' = [convPc EXCEPT ![c] = "resize"]
    /\ UNCHANGED <<convRes, ConvOthers>>

ConvResize(c) ==
    /\ convPc[c] = "resize"
    /\ frame' = [frame EXCEPT ![Slot(c)] = FrameResize(frame[Slot(c)])]
    /\ convPc' = [convPc EXCEPT ![c] = "encode"]
    /\ UNCHANGED <<convRes, ConvOthers>>

ConvEncode(c) ==
    /\ convPc[c] = "encode"
    /\ \E r \in EncodeOutcomes(frame[Slot(c)]) :
           /\ convRes' = [convRes EXCEPT ![c] = r]
           /\ convPc' = [convPc EXCEPT
                            ![c] = IF r = Panicked THEN "panic" ELSE "done"]
    /\ UNCHANGED <<frame, ConvOthers>>

ConvNext ==
    \/ \E c \in Calls : ConvGetDimensions(c)
    \/ \E c \in Calls : ConvFill(c)
    \/ \E c \in Calls : ConvScaleUp(c)
    \/ \E c \in Calls : ConvResize(c)
    \/ \E c \in Calls : ConvEncode(c)

SpecConvert == ConvInit /\ [][ConvNext]_vars

\* n lines of ".", each ended by '\n'
Column(n) == [i \in 1..(2 * n) |-> IF i % 2 = 1 THEN 46 ELSE 10]

\* one line of n times "."
Row(n) == [i \in 1..n |-> 46]

\* line counts below, at and above MIN_IMAGE_DIMENSION / 2 and
\* MIN_IMAGE_DIMENSION
TallHeights == {2, 167, 250, 251, 300}

\* line lengths below and above MIN_IMAGE_DIMENSION
WideWidths == {3, 499, 501}

LargeTexts ==
    {Column(n) : n \in TallHeights} \cup {Row(n) : n \in WideWidths}
    \cup {Row(3) \o <<10>> \o Row(2)}

\* one call, on a text of hundreds of lines or of characters
ConvLargeInit ==
    /\ OthersIdle
    /\ bareCR \in BOOLEAN
    /\ convPc = [c \in Calls |-> IF c = "a" THEN "dims" ELSE "idle"]
    /\ \E t \in LargeTexts :
           convText = [c \in Calls |-> IF c = "a" THEN t ELSE <<>>]
    /\ frame = [c \in Calls |-> NoFrame]
    /\ convRes = [c \in Calls |-> NoResult]

SpecConvertLarge == ConvLargeInit /\ [][ConvNext]_vars

\* '\n', '.' and 'P'
ConcChars == {10, 46, 80}

ConcTexts == SeqsUpTo(ConcChars, MaxConcLen)

\* two calls at once, each on a text of its own, their statements interleaved
ConcInit ==
    /\ OthersIdle
    /\ bareCR \in BOOLEAN
    /\ convPc = [c \in Calls |-> "dims"]
    /\ convText \in [Calls -> ConcTexts]
    /\ frame = [c \in Calls |-> NoFrame]
    /\ convRes = [c \in Calls |-> NoResult]

SpecConcurrent == ConcInit /\ [][ConvNext]_vars

----------------------------------------------------------------------------
(* website: one request, from the form to the response *)

\* "Hello!" and ":)" of the tests of the handlers
WebTestTexts == {<<72, 101, 108, 108, 111, 33>>, <<58, 41>>}

WebTexts == ConvTexts \cup WebTestTexts

\* sizes of the uploaded file; 10 is the size in the tests
FileSizes == (0..MaxFileSize) \cup {10}

\* Option<Mime>: no content type, the two accepted types and two others
ContentTypes == {"None", "image/jpeg", "image/png", "image/gif", "text/plain"}

ImageInputs ==
    {NoFile} \cup {TempFile(n, t) : n \in FileSizes, t \in ContentTypes}

\* Uuid::new_v4()
Uuids == {"uuid1", "uuid2"}

\* what image_to_ascii can return by its type: a text, or any ConvertError
ImageToAsciiOutcomes ==
    {Ok(t) : t \in {<<>>, <<36, 10>>, <<36, 32, 10, 46, 64, 10>>}}
    \cup {Err("ReadError"), Err("DecodeError"), Err("WriteError"),
          [tag |-> "Err", val |-> [kind |-> "UnknownASCIISymbol", ch |-> 80]]}

WebInit ==
    /\ SymIdle /\ DimIdle /\ TestIdle /\ ConvIdle
    /\ data = <<>> /\ asciiCall = NoCall
    /\ bareCR \in BOOLEAN
    /\ \/ \E t \in WebTexts : webReq = [kind |-> "ascii", ascii_input |-> t]
       \/ \E f \in ImageInputs : webReq = [kind |-> "image", image_input |-> f]
    /\ webPc = "handler"
    /\ webVal = NoResult /\ webConv = NoResult
    /\ webFiles = {} /\ webHtml = NoTemplate
    /\ webResp = NoResponse /\ webLog = <<>>

WebOthers == <<symCall, dimVars, asciiVars, testVars, convVars, webReq>>

\* generate_ascii_to_image_result: params.validate_ascii_input()
WebValidateAscii ==
    /\ webPc = "handler" /\ webReq.kind = "ascii"
    /\ webVal' = validate_ascii_input(webReq.ascii_input)
    /\ webLog' = Append(webLog, "validate_ascii_input")
    /\ webPc' = "validated"
    /\ UNCHANGED <<webConv, webFiles, webHtml, webResp, WebOthers>>

\* the arms Err(EmptyInput) and Err(NotAsciiInput)
WebAsciiInputError ==
    /\ webPc = "validated" /\ webReq.kind = "ascii"
    /\ webVal.tag = "Err"
    /\ webHtml' = AsciiInputErrorTemplate(webVal)
    /\ webPc' = "generated"
    /\ UNCHANGED <<webVal, webConv, webFiles, webResp, webLog, WebOthers>>

\* the arm Ok(_): ascii_to_image(&params.ascii_input)
WebAsciiToImage ==
    /\ webPc = "validated" /\ webReq.kind = "ascii"
    /\ webVal.tag = "Ok"
    /\ \E r \in ascii_to_image(webReq.ascii_input, bareCR) :
           /\ webConv' = r
           /\ webPc' = IF r = Panicked THEN "panic" ELSE "converted"
    /\ webLog' = Append(webLog, "ascii_to_image")
    /\ UNCHANGED <<webVal, webFiles, webHtml, webResp, WebOthers>>

\* create_image_file called whatever the converter returned
WebCreateImageFile_any(uuid, fate) ==
    /\ webPc = "converted" /\ webReq.kind = "ascii"
    /\ webLog' = Append(webLog, "create_image_file")
    /\ fate = "created"
    /\ webFiles' = webFiles \cup
           {[name |-> FileName(uuid), bytes |-> webConv.val]}
    /\ webHtml' = AsciiResultTemplate(FileName(uuid))
    /\ webPc' = "generated"
    /\ UNCHANGED <<webVal, webConv, webResp, WebOthers>>

\* the arm Ok(image): create_image_file and the template; File::create and
\* write_all can fail, and the expect then panics
WebCreateImageFile(uuid, fate) ==
    /\ webPc = "converted" /\ webReq.kind = "ascii"
    /\ webConv.tag = "Ok"
    /\ webLog' = Append(webLog, "create_image_file")
    /\ CASE fate = "created" ->
              /\ webFiles' = webFiles \cup
                     {[name |-> FileName(uuid), bytes |-> webConv.val]}
              /\ webHtml' = AsciiResultTemplate(FileName(uuid))
              /\ webPc' = "generated"
         [] fate = "create failed" ->
              /\ webPc' = "panic"
              /\ UNCHANGED <<webFiles, webHtml>>
         [] fate = "write failed" ->
              /\ webFiles' = webFiles \cup
                     {[name |-> FileName(uuid), bytes |-> "partial"]}
              /\ webPc' = "panic"
              /\ UNCHANGED webHtml
    /\ UNCHANGED <<webVal, webConv, webResp, WebOthers>>

\* the arms Err(WriteError), Err(UnknownASCIISymbol(symbol)) and Err(_)
WebAsciiConvertError ==
    /\ webPc = "converted" /\ webReq.kind = "ascii"
    /\ webConv.tag = "Err"
    /\ webHtml' = AsciiConvertErrorTemplate(webConv)
    /\ webPc' = "generated"
    /\ UNCHANGED <<webVal, webConv, webFiles, webResp, webLog, WebOthers>>

\* generate_image_to_ascii_result: form.validate_image_input()
WebValidateImage ==
    /\ webPc = "handler" /\ webReq.kind = "image"
    /\ webVal' = validate_image_input(webReq.image_input)
    /\ webLog' = Append(webLog, "validate_image_input")
    /\ webPc' = "validated"
    /\ UNCHANGED <<webConv, webFiles, webHtml, webResp, WebOthers>>

\* the arms Err(EmptyInput) and Err(UnsupportedImageType)
WebImageInputError ==
    /\ webPc = "validated" /\ webReq.kind = "image"
    /\ webVal.tag = "Err"
    /\ webHtml' = ImageInputErrorTemplate(webVal)
    /\ webPc' = "generated"
    /\ UNCHANGED <<webVal, webConv, webFiles, webResp, webLog, WebOthers>>

\* the arm Ok(image_file): image_to_ascii on the file and the match on what
\* it returned
WebImageToAscii ==
    /\ webPc = "validated" /\ webReq.kind = "image"
    /\ webVal.tag = "Ok"
    /\ \E r \in ImageToAsciiOutcomes :
           /\ webConv' = r
           /\ webHtml' = ImageConvertTemplate(r)
    /\ webLog' = Append(webLog, "image_to_ascii")
    /\ webPc' = "generated"
    /\ UNCHANGED <<webVal, webFiles, webResp, WebOthers>>

\* submit_ascii and submit_image after the template: the status, the
\* rendering (whose expect panics when it fails) and the response
WebRespond(rendered) ==
    /\ webPc = "generated"
    /\ IF rendered
       THEN /\ webResp' = [status |-> IF is_error_template(webHtml)
                                     THEN 422 ELSE 200,
                           content_type |-> "text/html; charset=utf-8",
                           body |-> render_template(webHtml)]
            /\ webPc' = "responded"
       ELSE /\ webPc' = "panic"
            /\ UNCHANGED webResp
    /\ UNCHANGED <<webVal, webConv, webFiles, webHtml, webLog, WebOthers>>

WebNext ==
    \/ WebValidateAscii
    \/ WebAsciiInputError
    \/ WebAsciiToImage
    \/ \E u \in Uuids, fate \in {"created", "create failed", "write failed"} :
           WebCreateImageFile(u, fate)
    \/ WebAsciiConvertError
    \/ WebValidateImage
    \/ WebImageInputError
    \/ WebImageToAscii
    \/ \E rendered \in BOOLEAN : WebRespond(rendered)

SpecWebsite == WebInit /\ [][WebNext]_vars

----------------------------------------------------------------------------
(* Properties of the symbol map *)

\* the 70-symbol alphabet as a set (the literal of symbol_map.rs)
Alphabet == {
    36, 64, 66, 37, 56, 38, 87, 77, 35, 42, 111, 97, 104, 107,
    98, 100, 112, 113, 119, 109, 90, 79, 48, 81, 76, 67, 74, 85,
    89, 88, 122, 99, 118, 117, 110, 120, 114, 106, 102, 116, 47, 92,
    124, 40, 41, 49, 123, 125, 91, 93, 63, 45, 95, 43, 126, 60,
    62, 105, 33, 108, 73, 59, 58, 44, 34, 94, 96, 39, 46, 32 }

\* C1: whenever brightness_for_symbol was called with a symbol s of the
\* alphabet and returned the byte b, symbol_for_brightness(b) is s again.
C1_RoundTripLossless ==
    (symCall.fn = "brightness_for_symbol" /\ symCall.arg \in Alphabet)
        => /\ symCall.ret.tag = "Ok"
           /\ symbol_for_brightness(symCall.ret.val)
                  = [tag |-> "Ret", val |-> symCall.arg]

\* C2: every call symbol_for_brightness(b), b in 0..=255, computes an index
\* in 0..=69, does not panic and returns one of the 70 symbols.
C2_SymbolForBrightnessTotal ==
    symCall.fn = "symbol_for_brightness"
        => /\ BrightnessIndex(symCall.arg) \in 0..69
           /\ symCall.ret.tag = "Ret"
           /\ symCall.ret.val \in Alphabet

\* C2 witness: the call with the largest byte has returned the space
C2_Witness ==
    /\ symCall.fn = "symbol_for_brightness"
    /\ symCall.arg = 255
    /\ symCall.ret = [tag |-> "Ret", val |-> 32]

C4_UnknownSymbolDetected ==
    symCall.fn = "brightness_for_symbol"
        => IF symCall.arg \in Alphabet
           THEN symCall.ret.tag = "Ok" /\ symCall.ret.val \in Byte
           ELSE symCall.ret = [tag |-> "Err",
                               val |-> [kind |-> "UnknownASCIISymbol",
                                        ch |-> symCall.arg]]

\* C4 witness: 'P' has been rejected
C4_Witness ==
    /\ symCall.fn = "brightness_for_symbol"
    /\ symCall.arg = 80
    /\ symCall.ret.tag = "Err"

----------------------------------------------------------------------------
(* Properties of the Dimension scaler *)

\* exact integer arithmetic on operands whose products exceed 32 bits

\* trunc(f * s / l) for s <= l, one bit of f at a time
RECURSIVE MulDivQR(_, _, _)
MulDivQR(f, s, l) ==
    IF f = 0 THEN <<0, 0>>
    ELSE LET h == MulDivQR(f \div 2, s, l)
             t == 2 * h[2] + (f % 2) * s
         IN  <<2 * h[1] + t \div l, t % l>>

TruncMulDiv(f, s, l) == MulDivQR(f, s, l)[1]

\* a * b as <<hi, lo>> in base 2^30, for a, b < 2^30
WideMul(a, b) ==
    LET a1 == a \div 32768
        a0 == a % 32768
        b1 == b \div 32768
        b0 == b % 32768
        mid == a1 * b0 + a0 * b1
        low == (mid % 32768) * 32768 + a0 * b0
    IN  <<a1 * b1 + mid \div 32768 + low \div Pow2(30), low % Pow2(30)>>

\* |a * b - c * d| < bound, for bound <= 2^30
AbsDiffLess(a, b, c, d, bound) ==
    LET p == WideMul(a, b)
        q == WideMul(c, d)
        dh == p[1] - q[1]
        dl == p[2] - q[2]
    IN  \/ dh = 0 /\ dl < bound /\ -dl < bound
        \/ dh = 1 /\ Pow2(30) + dl < bound
        \/ dh = -1 /\ Pow2(30) - dl < bound

Larger(d) == IF d.width > d.height THEN d.width ELSE d.height

\* the result the claims describe for a rescale: the larger axis at bound,
\* the other axis trunc(bound * smaller / larger)
ExactScale(d, bound) ==
    IF d.width > d.height
    THEN [width |-> bound, height |-> TruncMulDiv(bound, d.height, d.width)]
    ELSE [width |-> TruncMulDiv(bound, d.width, d.height), height |-> bound]

\* the call recorded in dimCall went past the early return
Rescaled ==
    \/ /\ dimCall.fn = "scale_down"
       /\ ~(dimCall.before.width <= dimCall.arg
            /\ dimCall.before.height <= dimCall.arg)
    \/ /\ dimCall.fn = "scale_up"
       /\ ~(dimCall.before.width >= dimCall.arg
            \/ dimCall.before.height >= dimCall.arg)

\* C5: scale_down(max) leaves (width, height) unchanged when both are
\* <= max; otherwise the larger axis becomes max and the other axis
\* becomes trunc(max * smaller / larger).
C5_ScaleDownExact ==
    dimCall.fn = "scale_down"
        => IF Rescaled
           THEN dimension = ExactScale(dimCall.before, dimCall.arg)
           ELSE dimension = dimCall.before

\* C6: scale_up(min) leaves (width, height) unchanged when width >= min or
\* height >= min; otherwise the larger axis becomes min and the other axis
\* becomes trunc(min * smaller / larger), both axes min when they are equal.
C6_ScaleUpExact ==
    dimCall.fn = "scale_up"
        => IF Rescaled
           THEN Larger(dimCall.before) >= 1
                    => /\ dimension = ExactScale(dimCall.before, dimCall.arg)
                       /\ dimCall.before.width = dimCall.before.height
                              => dimension = [width |-> dimCall.arg,
                                              height |-> dimCall.arg]
           ELSE dimension = dimCall.before

\* C7: after scale_down(max) neither width nor height is larger than max,
\* and after scale_up(min) the larger of width and height is at least min.
C7_ScaleBounds ==
    /\ dimCall.fn = "scale_down"
           => dimension.width <= dimCall.arg /\ dimension.height <= dimCall.arg
    /\ dimCall.fn = "scale_up" => Larger(dimension) >= dimCall.arg

\* C8: scale_up and scale_down leave a Dimension with width = 0 or
\* height = 0 unchanged.
C8_DegenerateUnchanged ==
    (/\ dimCall.fn \in {"scale_down", "scale_up"}
     /\ (dimCall.before.width = 0 \/ dimCall.before.height = 0))
        => dimension = dimCall.before

\* C9: a rescale of (w, h), w >= 1 and h >= 1, to (w2, h2) keeps the
\* orientation and has |w2 * h - h2 * w| < max(w, h).
C9_AspectRatioKept ==
    (Rescaled /\ dimCall.before.width >= 1 /\ dimCall.before.height >= 1)
        => /\ dimCall.before.width > dimCall.before.height
                  => dimension.width >= dimension.height
           /\ dimCall.before.width <= dimCall.before.height
                  => dimension.width <= dimension.height
           /\ AbsDiffLess(dimension.width, dimCall.before.height,
                          dimension.height, dimCall.before.width,
                          Larger(dimCall.before))

----------------------------------------------------------------------------
(* Properties of the grid sizing *)

\* printable ASCII with '\n' as the only line separator
PrintableText(text) ==
    \A i \in 1..Len(text) : text[i] = 10 \/ text[i] \in 32..126

\* the lines of a text: one per '\n', and one more for characters after
\* the last '\n'
LineCount(text) ==
    Cardinality({i \in 1..Len(text) : text[i] = 10})
        + (IF Len(text) > 0 /\ text[Len(text)] # 10 THEN 1 ELSE 0)

\* the length in characters of the longest stretch without '\n'
LongestLine(text) ==
    LET runs == {0} \cup
            {j - i + 1 : i \in 1..Len(text), j \in 1..Len(text)}
        IsRun(n) ==
            \/ n = 0
            \/ \E i \in 1..(Len(text) - n + 1) :
                   \A k \in i..(i + n - 1) : text[k] # 10
    IN  CHOOSE n \in runs :
            /\ IsRun(n)
            /\ \A m \in runs : IsRun(m) => m <= n

\* C10: for a printable-ASCII text with '\n' separators, get_dimensions
\* returns height = number of lines and width = length in characters of
\* the longest line; the empty text gives (0, 0).
C10_GridSize ==
    (asciiCall.fn = "get_dimensions" /\ PrintableText(data))
        => /\ asciiCall.ret.height = LineCount(data)
           /\ asciiCall.ret.width = LongestLine(data)
           /\ data = <<>> => asciiCall.ret = [width |-> 0, height |-> 0]

\* C10 witness: "1\n1\n123\n1" has been measured as (3, 4)
C10_Witness ==
    /\ asciiCall.fn = "get_dimensions"
    /\ data = <<49, 10, 49, 10, 49, 50, 51, 10, 49>>
    /\ asciiCall.ret = [width |-> 3, height |-> 4]

----------------------------------------------------------------------------
(* Properties of convert_to_image *)

UnknownASCIISymbol(c) ==
    [tag |-> "Err", val |-> [kind |-> "UnknownASCIISymbol", ch |-> c]]

Ended(c) == convPc[c] \in {"done", "panic"}

\* the positions of a text, in reading order, whose character is neither '\n'
\* nor in the alphabet
OutsideByNewline(text) ==
    {i \in 1..Len(text) : text[i] # 10 /\ text[i] \notin Alphabet}

\* position i of the text is part of a line terminator: '\n', the '\r' of
\* "\r\n", or a '\r' that ends the text where the toolchain drops it
Terminator(text, i, stripCR) ==
    \/ text[i] = 10
    \/ text[i] = 13 /\ i < Len(text) /\ text[i + 1] = 10
    \/ text[i] = 13 /\ i = Len(text) /\ stripCR

\* the positions of the characters of the lines that are not in the alphabet
OutsideOfLines(text, stripCR) ==
    {i \in 1..Len(text) :
        ~Terminator(text, i, stripCR) /\ text[i] \notin Alphabet}

Min(S) == CHOOSE x \in S : \A y \in S : x <= y

\* C11 as stated, lines being what '\n' separates: a text with a character
\* outside SYMBOLS makes the call return UnknownASCIISymbol of the first one
C11_FirstUnknownByNewline ==
    \A c \in Calls :
        (Ended(c) /\ OutsideByNewline(convText[c]) # {})
            => convRes[c] = UnknownASCIISymbol(
                   convText[c][Min(OutsideByNewline(convText[c]))])

\* C11: a text one of whose lines (as str::lines yields them: "\n" and
\* "\r\n" end a line and are not part of it) has a character outside SYMBOLS
\* makes the call return UnknownASCIISymbol of the first such character in
\* reading order, and no picture
C11_FirstUnknownSymbol ==
    \A c \in Calls :
        (Ended(c) /\ OutsideOfLines(convText[c], bareCR) # {})
            => /\ convPc[c] = "done"
               /\ convRes[c] = UnknownASCIISymbol(
                      convText[c][Min(OutsideOfLines(convText[c], bareCR))])

\* ".\r\nP" has ended: the '\r' is passed over and 'P' is reported
C11_Witness ==
    /\ convText["a"] = <<46, 13, 10, 80>>
    /\ convPc["a"] = "done"
    /\ convRes["a"] = UnknownASCIISymbol(80)

ConvertErrorKind(r) == IF r.tag = "Err" THEN r.val.kind ELSE "none"

C19_NoInterference ==
    \A c \in Calls :
        Ended(c) => convRes[c] \in ascii_to_image(convText[c], bareCR)

\* call a has returned a picture while call b, on another text, is in the
\* middle of its loop
C19_Witness ==
    /\ convPc["a"] = "done" /\ convRes["a"].tag = "Ok"
    /\ convPc["b"] = "fill" /\ frame["b"].w > 0
    /\ convText["a"] # convText["b"]

----------------------------------------------------------------------------
(* Properties of the website *)

NonAscii(text) == \E i \in 1..Len(text) : text[i] >= 128

\* C13: validate_ascii_input returns Err(EmptyInput) exactly for the empty
\* string, Err(NotAsciiInput) exactly for a non-empty string with a non-ASCII
\* character, and Ok(()) for every other string, characters outside the
\* alphabet of the converter included
C13_ValidateAscii ==
    (webReq.kind = "ascii" /\ webPc # "handler")
        => LET t == webReq.ascii_input
           IN  /\ webVal = Err("EmptyInput") <=> Len(t) = 0
               /\ webVal = Err("NotAsciiInput") <=> (Len(t) > 0 /\ NonAscii(t))
               /\ webVal = [tag |-> "Ok"] <=> (Len(t) > 0 /\ ~NonAscii(t))
               /\ (Len(t) > 0 /\ ~NonAscii(t)
                   /\ \E i \in 1..Len(t) : t[i] \notin Alphabet)
                      => webVal.tag = "Ok"

\* "P", ASCII but not of the alphabet, has passed the validation
C13_Witness ==
    /\ webReq.kind = "ascii" /\ webReq.ascii_input = <<80>>
    /\ webPc = "validated" /\ webVal.tag = "Ok"

\* C14: validate_image_input returns Err(EmptyInput) for no file and for a
\* file of size 0 whatever its type, Ok(the file) for a file of size > 0 of
\* type image/jpeg or image/png, and Err(UnsupportedImageType) for every
\* other file of size > 0, one without content type included
C14_ValidateImage ==
    (webReq.kind = "image" /\ webPc # "handler")
        => LET f == webReq.image_input
           IN  /\ ~f.some => webVal = Err("EmptyInput")
               /\ (f.some /\ f.size = 0) => webVal = Err("EmptyInput")
               /\ (f.some /\ f.size > 0
                   /\ f.content_type \in {"image/jpeg", "image/png"})
                      => webVal = Ok(f)
               /\ (f.some /\ f.size > 0
                   /\ f.content_type \notin {"image/jpeg", "image/png"})
                      => webVal = Err("UnsupportedImageType")

\* a GIF of size 0 has been refused as empty, not as unsupported
C14_Witness ==
    /\ webReq.kind = "image" /\ webReq.image_input = TempFile(0, "image/gif")
    /\ webPc = "validated" /\ webVal = Err("EmptyInput")

Generated == webPc \in {"generated", "responded"}

ErrorVariants == {"Error", "ErrorMultiLine"}

\* C15: generate_ascii_to_image_result returns Error with the empty-form
\* message for the empty input, Error with the ASCII-only message for a
\* non-ASCII input, ErrorMultiLine whose first message ends with c for the
\* converter's UnknownASCIISymbol(c), Error for any other converter error,
\* and AsciiToImageResult with "conversion_results/<name>.png" of the file it
\* wrote for a success; every error template links to "/ascii-to-image"
C15_AsciiTemplates ==
    (webReq.kind = "ascii" /\ Generated)
        => LET t == webReq.ascii_input
           IN  /\ Len(t) = 0 =>
                     webHtml = [template |-> "Error",
                                error_message |-> "It looks like you submitted an empty form! Be sure to paste your ASCII text into the text box of the form.",
                                try_again_link |-> "/ascii-to-image"]
               /\ (Len(t) > 0 /\ NonAscii(t)) =>
                     webHtml = [template |-> "Error",
                                error_message |-> "This form only accepts ASCII characters! Be sure to double check that all pasted text is valid ASCII.",
                                try_again_link |-> "/ascii-to-image"]
               /\ ConvertErrorKind(webConv) = "UnknownASCIISymbol" =>
                     /\ webHtml.template = "ErrorMultiLine"
                     /\ webHtml.error_message[Len(webHtml.error_message)]
                            = webConv.val.ch
               /\ (webConv.tag = "Err"
                   /\ ConvertErrorKind(webConv) # "UnknownASCIISymbol") =>
                     webHtml.template = "Error"
               /\ webConv.tag = "Ok" =>
                     /\ webHtml.template = "AsciiToImageResult"
                     /\ \E u \in Uuids :
                            /\ webHtml.image_result
                                   = <<"conversion_results/", u, ".png">>
                            /\ \E file \in webFiles : file.name = <<u, ".png">>
               /\ webHtml.template \in ErrorVariants =>
                     webHtml.try_again_link = "/ascii-to-image"

\* "Hello!" has given the template of the unsupported character 'H'
C15_Witness ==
    /\ webReq.kind = "ascii"
    /\ webReq.ascii_input = <<72, 101, 108, 108, 111, 33>>
    /\ webPc = "generated"
    /\ webHtml.template = "ErrorMultiLine"
    /\ webHtml.error_message[2] = 72

\* C16: generate_image_to_ascii_result calls the converter only on a file
\* that validate_image_input accepted; it returns ImageToAsciiResult with the
\* converter's text, one and the same Error for every converter error, the
\* empty-form Error for EmptyInput and the unsupported-type Error for
\* UnsupportedImageType; every error template links to "/image-to-ascii"
C16_ImageTemplates ==
    webReq.kind = "image"
        => /\ (\E i \in 1..Len(webLog) : webLog[i] = "image_to_ascii")
                  => webVal = Ok(webReq.image_input)
           /\ Generated =>
                  /\ webConv.tag = "Ok" =>
                         webHtml = [template |-> "ImageToAsciiResult",
                                    ascii_result |-> webConv.val]
                  /\ webConv.tag = "Err" =>
                         webHtml = [template |-> "Error",
                                    error_message |-> "It looks like we ran into an issue with parsing your image! There could be a problem with your image or with our parser, so try it one more time. But if that doesn't work, try a different image.",
                                    try_again_link |-> "/image-to-ascii"]
                  /\ webVal = Err("EmptyInput") =>
                         webHtml = [template |-> "Error",
                                    error_message |-> "It looks like you submitted an empty form! Be sure to upload an image to the form before submitting.",
                                    try_again_link |-> "/image-to-ascii"]
                  /\ webVal = Err("UnsupportedImageType") =>
                         webHtml = [template |-> "Error",
                                    error_message |-> "It looks like you submitted an unsupported image type! Be sure to upload either a JPEG or a PNG image only.",
                                    try_again_link |-> "/image-to-ascii"]
                  /\ webHtml.template \in ErrorVariants =>
                         webHtml.try_again_link = "/image-to-ascii"

\* the converter has failed with WriteError on an accepted PNG and the
\* template is the parsing error
C16_Witness ==
    /\ webReq.kind = "image" /\ webReq.image_input = TempFile(10, "image/png")
    /\ webPc = "generated"
    /\ webConv = Err("WriteError")
    /\ webHtml.template = "Error"

\* C17: submit_ascii and submit_image answer 422 exactly when the template
\* is Error or ErrorMultiLine and 200 otherwise, always with the content type
\* "text/html; charset=utf-8"; "Hello!" and "" get a client error, ":)" 200
C17_StatusCodes ==
    webPc = "responded"
        => /\ webResp.status = 422 <=> webHtml.template \in ErrorVariants
           /\ webResp.status = 200 <=> webHtml.template \notin ErrorVariants
           /\ webResp.content_type = "text/html; charset=utf-8"
           /\ webReq.kind = "ascii" =>
                  /\ webReq.ascii_input = <<72, 101, 108, 108, 111, 33>>
                         => webResp.status \in 400..499
                  /\ Len(webReq.ascii_input) = 0
                         => webResp.status \in 400..499
                  /\ webReq.ascii_input = <<58, 41>> => webResp.status = 200

\* ":)" has been answered with 200 and the page of its picture
C17_Witness ==
    /\ webReq.kind = "ascii" /\ webReq.ascii_input = <<58, 41>>
    /\ webPc = "responded"
    /\ webResp.status = 200
    /\ webHtml.template = "AsciiToImageResult"

----------------------------------------------------------------------------
(* The buckets of symbol_for_brightness *)

\* the 0-based place of a symbol in SYMBOLS
IndexOfSymbol(ch) == CHOOSE i \in 0..(Len(SYMBOLS) - 1) : SYMBOLS[i + 1] = ch

\* the bucket of a byte: the place of the symbol returned for it
Bucket(b) == IndexOfSymbol(symbol_for_brightness(b).val)

----------------------------------------------------------------------------
(* The bytes of brightness_for_symbol *)

\* C21: for the symbol at position p of SYMBOLS, brightness_for_symbol returns
\* trunc(p * 3.65) (the integer part of p * 365 / 100); the product stays at
\* or below 251, so the cast to u8 neither wraps nor saturates, and '$' at
\* position 0 gives 0
C21_BrightnessOfPosition ==
    (symCall.fn = "brightness_for_symbol" /\ symCall.arg \in Alphabet)
        => LET p == IndexOfSymbol(symCall.arg)
           IN  /\ symCall.ret.tag = "Ok"
               /\ symCall.ret.val = (p * 365) \div 100
               /\ symCall.ret.val <= 251
               /\ F32ToInt(F32Mul(U32ToF32(p), BRIGHT_DIV)) <= 255
               /\ p = 0 => symCall.ret.val = 0

\* the space, the last symbol (position 69), has been mapped to 251
C21_Witness ==
    /\ symCall.fn = "brightness_for_symbol"
    /\ symCall.arg = 32
    /\ symCall.ret = [tag |-> "Ok", val |-> 251]

----------------------------------------------------------------------------
(* The raster of convert_to_image *)

\* a text of alphabet symbols in lines separated by '\n'
AlphabetText(text) == \A i \in 1..Len(text) : text[i] \in Alphabet \cup {10}

\* the row of position k of a text: the number of '\n' before it
RowOf(text, k) == Cardinality({i \in 1..(k - 1) : text[i] = 10})

\* the column of position k: the number of characters between the last '\n'
\* before it and itself
ColumnOf(text, k) ==
    Cardinality({i \in 1..(k - 1) : \A j \in i..(k - 1) : text[j] # 10})

\* the call has left the loops without an error
Filled(c) ==
    \/ convPc[c] \in {"scale", "resize", "encode"}
    \/ convPc[c] = "done" /\ convRes[c].tag # "Err"

\* C22: once the loops of convert_to_image are over for a text of alphabet
\* symbols, the pixel at (column, row) of every character is
\* brightness_for_symbol of that character, and every other cell of the
\* raster, to the right of the end of a shorter line, is 0
C22_RasterFilled ==
    \A c \in Calls :
        (Filled(c) /\ AlphabetText(convText[c]))
            => LET t == convText[c]
                   img == frame[Slot(c)].img
                   chars == {k \in 1..Len(t) : t[k] # 10}
                   cell(k) == <<ColumnOf(t, k), RowOf(t, k)>>
               IN  /\ img.width = LongestLine(t) /\ img.height = LineCount(t)
                   /\ DOMAIN img.px
                          = (0..(img.width - 1)) \X (0..(img.height - 1))
                   /\ \A k \in chars :
                          /\ cell(k) \in DOMAIN img.px
                          /\ img.px[cell(k)] = brightness_for_symbol(t[k]).val
                   /\ \A q \in DOMAIN img.px :
                          (q \notin {cell(k) : k \in chars}) => img.px[q] = 0

\* "..\n@" has been filled: '@' under the first '.', and nothing under the
\* second
C22_Witness ==
    /\ convText["a"] = <<46, 46, 10, 64>>
    /\ convPc["a"] = "scale"
    /\ frame["a"].img.px[<<0, 1>>] = 3
    /\ frame["a"].img.px[<<1, 1>>] = 0
    /\ frame["a"].img.px[<<1, 0>>] = 248

----------------------------------------------------------------------------
(* The size of the picture of convert_to_image *)

\* the size of the raster: the raw dimensions of the text
RawDimension(c) ==
    [width |-> frame[Slot(c)].img.width, height |-> frame[Slot(c)].img.height]

\* the call is past dimension.scale_up(MIN_IMAGE_DIMENSION)
Scaled(c) ==
    \/ convPc[c] \in {"resize", "encode"}
    \/ Ended(c) /\ ConvertErrorKind(convRes[c]) # "UnknownASCIISymbol"

\* the call is past imageops::resize
Resized(c) ==
    \/ convPc[c] = "encode"
    \/ Ended(c) /\ ConvertErrorKind(convRes[c]) # "UnknownASCIISymbol"

\* C23: the dimensions stay the raw (W, H) of the raster until the loops are
\* over; after scale_up(500) the larger of (W', H') is at least 500 (and
\* (W, H) is kept when its larger side already is); the resize target, and
\* the size of the picture returned, is exactly (trunc(W' / 2), H')
C23_ScaleThenResize ==
    \A c \in Calls :
        LET d == frame[Slot(c)].dimension
        IN  /\ convPc[c] \in {"fill", "scale"} => d = RawDimension(c)
            /\ Scaled(c) =>
                   /\ Larger(d) >= 500
                   /\ Larger(RawDimension(c)) >= 500 => d = RawDimension(c)
            /\ Resized(c) =>
                   frame[Slot(c)].target
                       = [width |-> d.width \div 2, height |-> d.height]
            /\ (convPc[c] = "done" /\ convRes[c].tag = "Ok") =>
                   /\ convRes[c].val.width = d.width \div 2
                   /\ convRes[c].val.height = d.height

\* "...\n.." (3 by 2) has been scaled to 500 by 333 and its picture is 250
\* by 333
C23_Witness ==
    /\ convText["a"] = <<46, 46, 46, 10, 46, 46>>
    /\ convPc["a"] = "done"
    /\ frame["a"].dimension = [width |-> 500, height |-> 333]
    /\ convRes["a"].tag = "Ok"
    /\ convRes["a"].val.width = 250 /\ convRes["a"].val.height = 333

\* C24: for a text of alphabet symbols with a non-empty line, the resize
\* target of convert_to_image has width >= 1 and height >= 1, whatever the
\* number of lines and their length
C24_TargetWellFormed ==
    \A c \in Calls :
        (/\ Resized(c)
         /\ AlphabetText(convText[c])
         /\ \E i \in 1..Len(convText[c]) : convText[c][i] # 10)
            => /\ frame[Slot(c)].target.width >= 1
               /\ frame[Slot(c)].target.height >= 1

----------------------------------------------------------------------------
(* The templates and their names *)

\* C25: is_error_template is true exactly when get_template_name is "error":
\* both for Error and ErrorMultiLine, neither for AsciiToImageResult (page
\* "ascii-to-image-result") and ImageToAsciiResult ("image-to-ascii-result");
\* so a response has status 422 exactly when the page rendered is "error"
C25_ErrorTemplateName ==
    /\ Generated =>
           /\ is_error_template(webHtml) <=> get_template_name(webHtml) = "error"
           /\ webHtml.template \in ErrorVariants =>
                  (is_error_template(webHtml)
                   /\ get_template_name(webHtml) = "error")
           /\ webHtml.template = "AsciiToImageResult" =>
                  (~is_error_template(webHtml)
                   /\ get_template_name(webHtml) = "ascii-to-image-result")
           /\ webHtml.template = "ImageToAsciiResult" =>
                  (~is_error_template(webHtml)
                   /\ get_template_name(webHtml) = "image-to-ascii-result")
    /\ webPc = "responded" =>
           (webResp.status = 422 <=> webResp.body.template_name = "error")

\* the ErrorMultiLine of "P" has been rendered with the page "error" and
\* answered with 422
C25_Witness ==
    /\ webPc = "responded"
    /\ webReq.kind = "ascii" /\ webReq.ascii_input = <<80>>
    /\ webHtml.template = "ErrorMultiLine"
    /\ webResp.body.template_name = "error"
    /\ webResp.status = 422

----------------------------------------------------------------------------
(* The order of the steps of generate_ascii_to_image_result *)

Called(name) == {i \in 1..Len(webLog) : webLog[i] = name}

\* C26: the steps come in the order validate, convert, write file: the
\* converter is called only after the validation returned Ok,
\* create_image_file at most once and only after ascii_to_image returned Ok,
\* and on every error path (EmptyInput, NotAsciiInput, UnknownASCIISymbol,
\* WriteError, any other) there is no file in static/conversion_results
C26_StepOrder ==
    webReq.kind = "ascii"
        => /\ \A i \in Called("ascii_to_image") :
                  /\ \E j \in Called("validate_ascii_input") : j < i
                  /\ webVal = [tag |-> "Ok"]
           /\ Cardinality(Called("create_image_file")) <= 1
           /\ \A i \in Called("create_image_file") :
                  /\ \E j \in Called("ascii_to_image") : j < i
                  /\ webConv.tag = "Ok"
           /\ (webVal.tag = "Err" \/ webConv.tag = "Err") => webFiles = {}
           /\ (Generated /\ webHtml.template \in ErrorVariants)
                  => (webFiles = {} /\ Called("create_image_file") = {})
           /\ webFiles # {} => Called("create_image_file") # {}

\* "P" has been refused by the converter and answered with the error page,
\* and no file has been written
C26_Witness ==
    /\ webReq.kind = "ascii" /\ webReq.ascii_input = <<80>>
    /\ webPc = "responded"
    /\ webLog = <<"validate_ascii_input", "ascii_to_image">>
    /\ webConv = UnknownASCIISymbol(80)
    /\ webFiles = {}

----------------------------------------------------------------------------
(* The pixel writes of convert_to_image *)

\* the loops of call c stand at a character: (w, h) is the cell of the next
\* put_pixel
AtCharacter(c) ==
    /\ convPc[c] = "fill"
    /\ frame[Slot(c)].h < Len(Lines(convText[c], bareCR))
    /\ frame[Slot(c)].w
           < Len(Lines(convText[c], bareCR)[frame[Slot(c)].h + 1])

\* C27: every put_pixel(w, h) of convert_to_image has w < dimension.width
\* and h < dimension.height as get_dimensions computed them, for every text,
\* multi-byte characters and lines of different lengths included; the loops
\* never end in the panic of a write outside the raster
C27_WritesInBounds ==
    \A c \in Calls :
        LET f == frame[Slot(c)]
        IN  /\ AtCharacter(c) =>
                   /\ f.dimension = get_dimensions(convText[c], bareCR)
                   /\ f.w < f.dimension.width /\ f.h < f.dimension.height
                   /\ f.img.width = f.dimension.width
                   /\ f.img.height = f.dimension.height
                   /\ <<f.w, f.h>> \in DOMAIN f.img.px
            /\ convPc[c] = "panic" => f.target.width * f.target.height = 0
                                      /\ Larger(f.dimension) >= 500

\* ".\n.." is being filled: the second line, longer than the first, has just
\* been written up to its last cell (1, 1)
C27_Witness ==
    /\ convText["a"] = <<46, 10, 46, 46>>
    /\ convPc["a"] = "fill"
    /\ frame["a"].h = 1 /\ frame["a"].w = 2
    /\ frame["a"].img.px[<<1, 1>>] = 248

====
